---- MODULE Spec2Model ----
(***************************************************************************)
(* PropertyValueStatistics (property_value_statistics.py): flattening of   *)
(* the nested street-tree taxonomy and the per-category average price.     *)
(*                                                                         *)
(* Python objects are records [t |-> tag, v |-> payload]:                  *)
(*   "str"   v = the text, a sequence of one-character strings             *)
(*   "int"   v = the integer          "bool"  v = 1 (True) or 0 (False)    *)
(*   "float" v = the number in thousandths                                 *)
(*   "none"  v = 0                    "list"  v = sequence of objects      *)
(*   "dict"  v = sequence of <<key text, object>> in insertion order,      *)
(*               keys pairwise distinct                                    *)
(***************************************************************************)
EXTENDS Integers, Sequences, FiniteSets, TLC

VARIABLES
    street_trees,       \* the taxonomy handed to __init__ (the caller's object)
    property_sales,     \* self.__property_sales
    flattened,          \* self.__street_trees, the index built by __init__
    pc,                 \* "new", "ctor_raised", "ready", "loop"
    tree_type,          \* argument of the running / last _calculate_average_price
    idx,                \* position of the record the loop handles next
    total_price,        \* running sum, in thousandths
    property_count,     \* running count
    log,                \* logger.error calls of the running / last call
    outcome,            \* "none", "returned", or the exception that left the call
    result,             \* value returned by the last call, in hundredths
    reflat,             \* outcome of the last direct _flatten_street_trees call
    history,            \* the calls that ended so far, where they are noted
    files,              \* the files the application and the configuration read
    app,                \* Application.run: position, exit code, messages logged
    key_name,           \* argument of Config.get_value
    got_value,          \* outcome of the last Config.get_value call
    got_logger          \* outcome of the last Logger.get_logger call

vars == <<street_trees, property_sales, flattened, pc, tree_type, idx,
          total_price, property_count, log, outcome, result, reflat, history,
          files, app, key_name, got_value, got_logger>>

\* what the aggregator does not touch
outside == <<files, app, key_name, got_value, got_logger>>

\* what the application and the utilities do not touch
aggregator == <<street_trees, property_sales, flattened, pc, tree_type, idx,
                total_price, property_count, log, outcome, result, reflat, history>>

----------------------------------------------------------------------------
(* Text *)

UpperLetters ==
    <<"A","B","C","D","E","F","G","H","I","J","K","L","M",
      "N","O","P","Q","R","S","T","U","V","W","X","Y","Z">>

LowerLetters ==
    <<"a","b","c","d","e","f","g","h","i","j","k","l","m",
      "n","o","p","q","r","s","t","u","v","w","x","y","z">>

LowerChar(c) ==
    IF \E i \in DOMAIN UpperLetters : UpperLetters[i] = c
    THEN LowerLetters[CHOOSE i \in DOMAIN UpperLetters : UpperLetters[i] = c]
    ELSE c

\* str.lower()
Lower(s) == [i \in 1..Len(s) |-> LowerChar(s[i])]

\* sub in s, for two texts
Contains(s, sub) ==
    \E i \in 0..(Len(s) - Len(sub)) : SubSeq(s, i + 1, i + Len(sub)) = sub

\* s.replace(",", "")
RECURSIVE RemoveCommas(_)
RemoveCommas(s) ==
    IF s = <<>> THEN <<>>
    ELSE IF Head(s) = "," THEN RemoveCommas(Tail(s))
    ELSE <<Head(s)>> \o RemoveCommas(Tail(s))

----------------------------------------------------------------------------
(* Python objects *)

PyStr(s)   == [t |-> "str", v |-> s]
PyInt(n)   == [t |-> "int", v |-> n]
PyBool(b)  == [t |-> "bool", v |-> IF b THEN 1 ELSE 0]
PyFloat(m) == [t |-> "float", v |-> m]
PyNone     == [t |-> "none", v |-> 0]
PyList(l)  == [t |-> "list", v |-> l]
PyDict(kv) == [t |-> "dict", v |-> kv]

IsDict(x) == x.t = "dict"

\* isinstance(x, int): bool is a subclass of int
IsInstanceInt(x) == x.t \in {"int", "bool"}

\* bool(x)
Truthy(x) ==
    CASE x.t \in {"str", "list", "dict"} -> x.v # <<>>
      [] x.t \in {"int", "bool", "float"} -> x.v # 0
      [] OTHER -> FALSE

\* key in d, for a dict d
HasKey(d, key) == \E i \in DOMAIN d.v : d.v[i][1] = key

\* d[key], for a dict d that has the key
Lookup(d, key) == d.v[CHOOSE i \in DOMAIN d.v : d.v[i][1] = key][2]

\* d.get(key, default)
Get(d, key, default) == IF HasKey(d, key) THEN Lookup(d, key) ELSE default

StreetNameKey == <<"S","t","r","e","e","t"," ","N","a","m","e">>
PriceKey == <<"P","r","i","c","e">>
Tall == <<"t","a","l","l">>
Short == <<"s","h","o","r","t">>

----------------------------------------------------------------------------
(* _flatten_street_tree_type and _flatten_street_trees                     *)
(* The index is a function street -> (tree type -> TRUE); a call's outcome *)
(* is [exc, flat]: the exception that left it ("" for none) and the index  *)
(* as the call left it.                                                    *)

EmptyIndex == <<>>

\* the street's entry replaced instead of extended
SetFlagOverwrite(flat, key, type) ==
    IF key \in DOMAIN flat THEN [flat EXCEPT ![key] = (type :> TRUE)]
    ELSE flat @@ (key :> (type :> TRUE))

\* lines 170-172: create the street's entry on first sight, set the flag
SetFlag(flat, key, type) ==
    LET f1 == IF key \in DOMAIN flat THEN flat ELSE flat @@ (key :> <<>>)
    IN  [f1 EXCEPT ![key] = (type :> TRUE) @@ @]

\* line 169: the leaf test
IsHeight(value) == IsInstanceInt(value) /\ value.v >= 0

RECURSIVE FlattenItems(_, _, _, _)
RECURSIVE FlattenStreetTreeType(_, _, _)

RECURSIVE FlattenItemsShallow(_, _, _, _)
\* a fixed schema: leaves are looked for one level down only
FlattenItemsShallow(items, i, type, flat) ==
    IF i > Len(items) THEN [exc |-> "", flat |-> flat]
    ELSE IF ~IsDict(items[i][2]) /\ IsHeight(items[i][2])
         THEN FlattenItemsShallow(items, i + 1, type, SetFlag(flat, items[i][1], type))
         ELSE FlattenItemsShallow(items, i + 1, type, flat)

\* the for loop of lines 160-172 from the i-th item on
FlattenItems(items, i, type, flat) ==
    IF i > Len(items) THEN [exc |-> "", flat |-> flat]
    ELSE LET key == items[i][1]
             value == items[i][2]
         IN  IF IsDict(value)
             THEN LET sub == FlattenStreetTreeType(value, type, flat)
                  IN  IF sub.exc # "" THEN sub
                      ELSE FlattenItems(items, i + 1, type, sub.flat)
             ELSE IF IsHeight(value)
                  THEN FlattenItems(items, i + 1, type, SetFlag(flat, key, type))
                  ELSE FlattenItems(items, i + 1, type, flat)

\* street_trees.items() exists for a dict only
FlattenStreetTreeType(trees, type, flat) ==
    IF ~IsDict(trees) THEN [exc |-> "AttributeError", flat |-> flat]
    ELSE FlattenItems(trees.v, 1, type, flat)

RECURSIVE FlattenTop(_, _, _)
\* the for loop of lines 200-205 from the i-th top-level item on
FlattenTop(items, i, flat) ==
    IF i > Len(items) THEN [exc |-> "", flat |-> flat]
    ELSE LET sub == FlattenStreetTreeType(items[i][2], items[i][1], flat)
         IN  IF sub.exc # "" THEN sub
             ELSE FlattenTop(items, i + 1, sub.flat)

FlattenStreetTrees(trees) ==
    IF ~Truthy(trees) THEN [exc |-> "", flat |-> EmptyIndex]
    ELSE IF ~IsDict(trees) THEN [exc |-> "AttributeError", flat |-> EmptyIndex]
    ELSE FlattenTop(trees.v, 1, EmptyIndex)

----------------------------------------------------------------------------
(* str(x) and float(text)                                                  *)
(* Numbers are exact decimals held in thousandths. The texts considered    *)
(* are over digits, ".", ",", "+", "-", " " and letters other than those   *)
(* of an exponent or of inf/nan, with at most three fraction digits.       *)

Digits == <<"0","1","2","3","4","5","6","7","8","9">>

IsDigit(c) == \E i \in DOMAIN Digits : Digits[i] = c

DigitVal(c) == (CHOOSE i \in DOMAIN Digits : Digits[i] = c) - 1

RECURSIVE NatText(_)
NatText(n) ==
    IF n < 10 THEN <<Digits[n + 1]>>
    ELSE NatText(n \div 10) \o <<Digits[(n % 10) + 1]>>

\* str(x) of line 232; the elements of a list or dict are not rendered
StrOf(x) ==
    CASE x.t = "str"  -> x.v
      [] x.t = "int"  -> IF x.v < 0 THEN <<"-">> \o NatText(0 - x.v) ELSE NatText(x.v)
      [] x.t = "bool" -> IF x.v = 1 THEN <<"T","r","u","e">> ELSE <<"F","a","l","s","e">>
      [] x.t = "none" -> <<"N","o","n","e">>
      [] x.t = "list" -> <<"[","]">>
      [] x.t = "dict" -> <<"{","}">>

RECURSIVE StripLeft(_)
StripLeft(s) ==
    IF s # <<>> /\ Head(s) = " " THEN StripLeft(Tail(s)) ELSE s

RECURSIVE StripRight(_)
StripRight(s) ==
    IF s # <<>> /\ s[Len(s)] = " " THEN StripRight(SubSeq(s, 1, Len(s) - 1)) ELSE s

RECURSIVE NatVal(_)
\* value of a sequence of digits
NatVal(ds) ==
    IF ds = <<>> THEN 0
    ELSE 10 * NatVal(SubSeq(ds, 1, Len(ds) - 1)) + DigitVal(ds[Len(ds)])

\* value in thousandths of the fraction digits fs
FracVal(fs) ==
    (IF Len(fs) >= 1 THEN 100 * DigitVal(fs[1]) ELSE 0)
    + (IF Len(fs) >= 2 THEN 10 * DigitVal(fs[2]) ELSE 0)
    + (IF Len(fs) >= 3 THEN DigitVal(fs[3]) ELSE 0)

\* float(s): [ok, v]; ok = FALSE is ValueError
ParseFloat(s) ==
    LET body   == StripRight(StripLeft(s))
        signed == body # <<>> /\ Head(body) \in {"+", "-"}
        num    == IF signed THEN Tail(body) ELSE body
        dots   == {i \in DOMAIN num : num[i] = "."}
        dot    == IF dots = {} THEN Len(num) + 1 ELSE CHOOSE i \in dots : TRUE
        ip     == SubSeq(num, 1, dot - 1)
        fp     == SubSeq(num, dot + 1, Len(num))
        wellformed ==
            /\ Cardinality(dots) <= 1
            /\ \A i \in DOMAIN ip : IsDigit(ip[i])
            /\ \A i \in DOMAIN fp : IsDigit(fp[i])
            /\ Len(ip) + Len(fp) >= 1
        mag    == 1000 * NatVal(ip) + FracVal(fp)
    IN  IF ~wellformed THEN [ok |-> FALSE, v |-> 0]
        ELSE [ok |-> TRUE,
              v |-> IF signed /\ Head(body) = "-" THEN 0 - mag ELSE mag]

----------------------------------------------------------------------------
(* One iteration of the loop of _calculate_average_price, lines 224-254.   *)
(* kind: "counted" (line 246-247 ran), "passed" (the street lacks the      *)
(* type), "skipped" (an exception the except clause catches, logged), or   *)
(* "raised" (an exception it does not catch).                              *)

Skipped(e, why) == [kind |-> "skipped", exc |-> e, reason |-> why, price |-> 0]
Raised(e, why)  == [kind |-> "raised", exc |-> e, reason |-> why, price |-> 0]

\* key in property, line 225: [ok, v]; ok = FALSE is TypeError
In(key, property) ==
    CASE property.t = "dict" -> [ok |-> TRUE, v |-> HasKey(property, key)]
      [] property.t = "str"  -> [ok |-> TRUE, v |-> Contains(property.v, key)]
      [] property.t = "list" ->
            [ok |-> TRUE, v |-> \E i \in DOMAIN property.v : property.v[i] = PyStr(key)]
      [] OTHER -> [ok |-> FALSE, v |-> FALSE]

\* the membership test of line 245 left out
JoinRecordAnyType(property, type, flat) ==
    IF ~IsDict(property) THEN Raised("AttributeError", "no get")
    ELSE
    LET name == Get(property, StreetNameKey, PyStr(<<>>))
    IN  IF name.t # "str" THEN Raised("AttributeError", "no lower")
        ELSE
        LET street_name == Lower(name.v)
            price == ParseFloat(RemoveCommas(StrOf(Get(property, PriceKey, PyStr(<<"0">>)))))
        IN  IF ~price.ok THEN Skipped("ValueError", "could not convert")
            ELSE IF street_name = <<>> THEN Skipped("ValueError", "invalid street name")
            ELSE IF street_name \notin DOMAIN flat THEN Skipped("KeyError", "street not found")
            ELSE [kind |-> "counted", exc |-> "", reason |-> "", price |-> price.v]

\* lines 231-247, once both keys were found in the record
JoinRecord(property, type, flat) ==
    IF ~IsDict(property) THEN Raised("AttributeError", "no get")
    ELSE
    LET name == Get(property, StreetNameKey, PyStr(<<>>))
    IN  IF name.t # "str" THEN Raised("AttributeError", "no lower")
        ELSE
        LET street_name == Lower(name.v)
            price == ParseFloat(RemoveCommas(StrOf(Get(property, PriceKey, PyStr(<<"0">>)))))
        IN  IF ~price.ok THEN Skipped("ValueError", "could not convert")
            ELSE IF street_name = <<>> THEN Skipped("ValueError", "invalid street name")
            ELSE IF street_name \notin DOMAIN flat THEN Skipped("KeyError", "street not found")
            ELSE IF type \in DOMAIN flat[street_name]
                 THEN [kind |-> "counted", exc |-> "", reason |-> "", price |-> price.v]
                 ELSE [kind |-> "passed", exc |-> "", reason |-> "", price |-> 0]

ProcessRecord(property, type, flat) ==
    LET hasPrice == In(PriceKey, property)
        hasName  == In(StreetNameKey, property)
    IN  IF ~hasPrice.ok THEN Skipped("TypeError", "not iterable")
        ELSE IF ~hasPrice.v \/ ~hasName.v THEN Skipped("KeyError", "missing keys")
        ELSE JoinRecord(property, type, flat)

----------------------------------------------------------------------------
(* Lines 256-257: the mean and round(mean, 2).                             *)
(* The sum is exact (thousandths); the result is in hundredths. A mean     *)
(* that is not halfway between two hundredths rounds to the nearer one.    *)
(* A halfway mean is not representable in binary64: round() sees the       *)
(* quotient the division produced, which lies just below or just above     *)
(* the halfway point. The two sets tabulate, for the <<sum, count>> pairs  *)
(* that sums of at most three of the prices below produce, on which side   *)
(* the binary64 quotient lies.                                             *)

HalfwayBelow == {<<30, 2>>, <<7010, 2>>, <<1000010, 2>>, <<-4990, 2>>}

HalfwayAbove == {}

Round2(total, count) ==
    LET unit == 10 * count
        q    == total \div unit
        r    == total % unit
    IN  IF 2 * r < unit THEN q
        ELSE IF 2 * r > unit THEN q + 1
        ELSE CASE <<total, count>> \in HalfwayBelow -> q
               [] <<total, count>> \in HalfwayAbove -> q + 1

AveragePrice(total, count) ==
    IF count # 0 THEN Round2(total, count) ELSE 0

RECURSIVE AverageLoop(_, _, _, _, _, _)
\* the loop of lines 223-254 from the i-th record on, then lines 256-257:
\* [exc, value], exc the exception that left the call ("" for none)
AverageLoop(sales, i, type, flat, total, count) ==
    IF i > Len(sales) THEN [exc |-> "", value |-> AveragePrice(total, count)]
    ELSE LET r == ProcessRecord(sales[i], type, flat)
         IN  CASE r.kind = "raised"  -> [exc |-> r.exc, value |-> 0]
               [] r.kind = "counted" ->
                    AverageLoop(sales, i + 1, type, flat, total + r.price, count + 1)
               [] OTHER -> AverageLoop(sales, i + 1, type, flat, total, count)

\* _calculate_average_price as one call
CalculateAveragePrice(sales, type, flat) == AverageLoop(sales, 1, type, flat, 0, 0)

----------------------------------------------------------------------------
(* Inputs *)

MaxSales == 2
MaxLeaves == 2

AStreet      == <<"a"," ","s","t">>
AStreetUpper == <<"A"," ","S","t">>
BRoad        == <<"b"," ","r","d">>
Blank        == <<" ">>
X            == <<"x">>
Y            == <<"y">>
Medium       == <<"m","e","d">>

Sale(name, price) == PyDict(<< <<StreetNameKey, name>>, <<PriceKey, price>> >>)

\* rows as csv.DictReader yields them (text, or None for a short row), and
\* other objects a caller may put in the list
SaleRecords ==
    { Sale(PyStr(AStreet), PyStr(<<"1",",","0","0","0">>)),
      Sale(PyStr(AStreetUpper), PyStr(<<"0",".","0","1">>)),
      Sale(PyStr(AStreet), PyStr(<<"0",".","0","2">>)),
      Sale(PyStr(BRoad), PyStr(<<" ","7"," ">>)),
      Sale(PyStr(Blank), PyStr(<<"7">>)),
      Sale(PyStr(<<>>), PyStr(<<"7">>)),
      Sale(PyStr(<<>>), PyStr(<<"x">>)),
      Sale(PyStr(AStreet), PyStr(<<"x">>)),
      Sale(PyStr(AStreet), PyStr(<<"-","5">>)),
      Sale(PyStr(AStreet), PyNone),
      Sale(PyStr(AStreet), PyInt(7)),
      Sale(PyNone, PyStr(<<"7">>)),
      PyDict(<< <<PriceKey, PyStr(<<"7">>)>> >>),
      PyDict(<< <<StreetNameKey, PyStr(AStreet)>> >>),
      PyNone,
      PyList(<<PyStr(PriceKey), PyStr(StreetNameKey)>>),
      PyStr(<<"a","b","c">>) }

SalesSequences == UNION {[1..n -> SaleRecords] : n \in 0..MaxSales}

\* the data of tests/test_property_value_statistics.py
ThePark       == <<"t","h","e"," ","p","a","r","k">>
CambridgeRoad == <<"c","a","m","b","r","i","d","g","e"," ","r","o","a","d">>
VentryPark    == <<"v","e","n","t","r","y"," ","p","a","r","k">>
WolfTonePark  == <<"w","o","l","f"," ","t","o","n","e"," ","p","a","r","k">>

ReferenceSales ==
    << Sale(PyStr(ThePark), PyStr(<<"7","9","5","0","0",".","0","0">>)),
       Sale(PyStr(CambridgeRoad), PyStr(<<"1","2","0","0","0","0",".","0","0">>)),
       Sale(PyStr(VentryPark), PyStr(<<"1","5","0","0","0","0",".","0","0">>)) >>

\* the sales the generated taxonomies are joined with
FlattenSales ==
    << Sale(PyStr(AStreet), PyStr(<<"1",",","0","0","0">>)),
       Sale(PyStr(BRoad), PyStr(<<" ","7"," ">>)),
       Sale(PyStr(AStreetUpper), PyStr(<<"0",".","0","2">>)) >>

ReferenceTrees ==
    PyDict(<<
      <<Short, PyDict(<<
          <<<<"t","h","e">>, PyDict(<< <<ThePark, PyInt(10)>> >>)>>,
          <<<<"v","e","n","t","r","y">>, PyDict(<< <<VentryPark, PyInt(0)>> >>)>>,
          <<<<"t","o","n","e">>,
            PyDict(<< <<<<"w","o","l","f">>, PyDict(<< <<WolfTonePark, PyInt(5)>> >>)>> >>)>>
        >>)>>,
      <<Tall, PyDict(<<
          <<<<"r","o","a","d">>,
            PyDict(<< <<<<"c","a","m","b","r","i","d","g","e">>,
                        PyDict(<< <<CambridgeRoad, PyInt(20)>> >>)>> >>)>>,
          <<<<"p","a","r","k">>,
            PyDict(<< <<<<"v","e","n","t","r","y">>,
                        PyDict(<< <<VentryPark, PyInt(20)>> >>)>> >>)>>
        >>)>>
    >>)

ShortSubtree == PyDict(<< <<X, PyDict(<< <<AStreet, PyInt(0)>> >>)>> >>)
TallSubtree ==
    PyDict(<< <<X, PyDict(<< <<Y, PyDict(<< <<AStreet, PyInt(20)>> >>)>> >>)>>,
              <<BRoad, PyInt(5)>> >>)

\* taxonomies the aggregator is built from: a street under both types (in
\* either order of the types), a street keyed by a blank, a street twice
\* under one type, a street keyed with capital letters, a type whose value
\* is a height, no taxonomy at all
SmallTaxonomies ==
    { PyDict(<< <<Short, ShortSubtree>>, <<Tall, TallSubtree>> >>),
      PyDict(<< <<Tall, TallSubtree>>, <<Short, ShortSubtree>> >>),
      PyDict(<< <<Tall, PyDict(<< <<Blank, PyInt(3)>>, <<AStreet, PyInt(1)>> >>)>> >>),
      PyDict(<< <<Short, PyDict(<< <<AStreet, PyInt(10)>>,
                                   <<X, PyDict(<< <<AStreet, PyInt(2)>> >>)>> >>)>> >>),
      PyDict(<< <<Tall, PyDict(<< <<AStreetUpper, PyInt(3)>> >>)>> >>),
      PyDict(<< <<Tall, PyInt(5)>> >>),
      PyDict(<<>>),
      PyNone }

\* d[key] = val
SetItem(d, key, val) ==
    IF HasKey(d, key)
    THEN PyDict([i \in DOMAIN d.v |-> IF d.v[i][1] = key THEN <<key, val>> ELSE d.v[i]])
    ELSE PyDict(Append(d.v, <<key, val>>))

RECURSIVE Put(_, _, _)
\* d[path[1]]...[path[n]] = val, creating the mappings on the way
Put(d, path, val) ==
    IF Len(path) = 1 THEN SetItem(d, path[1], val)
    ELSE LET child == IF HasKey(d, path[1]) /\ IsDict(Lookup(d, path[1]))
                      THEN Lookup(d, path[1]) ELSE PyDict(<<>>)
         IN  SetItem(d, path[1], Put(child, Tail(path), val))

\* leaf values by street: heights (0 included), and what is not a height
LeafValues(street) ==
    IF street = AStreet
    THEN {PyInt(0), PyInt(7), PyInt(-1), PyBool(TRUE), PyNone}
    ELSE {PyInt(0), PyFloat(2500), PyStr(<<"n","/","a">>), PyList(<<PyInt(3)>>)}

\* a leaf under a type, directly or two levels down, or a type whose own
\* value is not a mapping of streets
Placements ==
    {[path |-> <<c>> \o mid \o <<street>>, val |-> v] :
        c \in {Tall, Short}, mid \in {<<>>, <<X, Y>>},
        street \in {AStreet}, v \in LeafValues(AStreet)}
    \cup {[path |-> <<c>> \o mid \o <<street>>, val |-> v] :
        c \in {Tall, Short}, mid \in {<<>>, <<X, Y>>},
        street \in {BRoad}, v \in LeafValues(BRoad)}
    \cup {[path |-> <<c>>, val |-> v] : c \in {Tall, Short},
                                        v \in {PyInt(5), PyNone, PyDict(<<>>)}}

RECURSIVE BuildTaxonomy(_, _)
BuildTaxonomy(ps, n) ==
    IF n = 0 THEN PyDict(<<>>)
    ELSE Put(BuildTaxonomy(ps, n - 1), ps[n].path, ps[n].val)

PlacementSequences == UNION {[1..n -> Placements] : n \in 0..MaxLeaves}

----------------------------------------------------------------------------
(* The leaves of a taxonomy, read off its structure *)

Last(seq) == seq[Len(seq)]

RECURSIVE Occurrences(_)
\* the non-mapping entries of a mapping at any depth: <<path of keys, value>>
Occurrences(node) ==
    UNION { LET key == node.v[i][1]
                value == node.v[i][2]
            IN  IF IsDict(value)
                THEN {<<(<<key>> \o o[1]), o[2]>> : o \in Occurrences(value)}
                ELSE {<< <<key>>, value >>}
            : i \in DOMAIN node.v }

\* <<type, path below the type, value>> for every leaf under a top-level key
TypeOccurrences(trees) ==
    IF ~IsDict(trees) THEN {}
    ELSE UNION { IF IsDict(trees.v[i][2])
                 THEN {<<trees.v[i][1], o[1], o[2]>> : o \in Occurrences(trees.v[i][2])}
                 ELSE {}
                 : i \in DOMAIN trees.v }

\* the set of (type, street, height) leaves
TypeLeaves(trees) == {<<o[1], Last(o[2]), o[3]>> : o \in TypeOccurrences(trees)}

\* an integer >= 0, as the specification words it
IsNonNegativeInteger(value) == value.t = "int" /\ value.v >= 0

----------------------------------------------------------------------------
(* The aggregator *)

NotCalled == [called |-> FALSE, exc |-> "", flat |-> EmptyIndex]

MaxCalls == 2

\* the last MaxCalls entries of a sequence
Latest(seq) ==
    IF Len(seq) <= MaxCalls THEN seq ELSE SubSeq(seq, Len(seq) - MaxCalls + 1, Len(seq))

NoHistory == [on |-> FALSE, calls |-> <<>>]

\* a call of _calculate_average_price(type) that ended: exc is the exception
\* that left it ("" when it returned), value what it returned
Noted(h, type, exc, value) ==
    IF h.on
    THEN [h EXCEPT !.calls = Latest(Append(@, [type |-> type, exc |-> exc, value |-> value]))]
    ELSE h

\* a file that is not there
Missing == [exists |-> FALSE, valid |-> FALSE, data |-> PyNone]

NoFiles == [csv |-> Missing, json |-> Missing, toml |-> Missing, logs_dir |-> FALSE]

NoCall == [called |-> FALSE, exc |-> "", value |-> PyNone]

\* pc: "idle", "start", "sales_extracted", "trees_extracted", "done",
\* "exited" (exit() was called) or "raised" (an exception ended the process);
\* read: the data files opened so far; csv_exc, json_exc: the exception the
\* extract call raised ("" for none); critical, info: the messages logged
NotRun ==
    [pc |-> "idle", read |-> <<>>, csv_exc |-> "", json_exc |-> "",
     property_sales |-> PyNone, street_trees |-> PyNone,
     constructed |-> FALSE, critical |-> <<>>, info |-> <<>>,
     exit_code |-> 0, exc |-> ""]

\* neither the application nor the utilities are in use
Idle ==
    /\ files = NoFiles
    /\ app = NotRun
    /\ key_name = <<>>
    /\ got_value = NoCall
    /\ got_logger = [called |-> FALSE, exc |-> "", level |-> PyNone, config_exc |-> ""]

Fresh ==
    /\ flattened = EmptyIndex
    /\ pc = "new"
    /\ tree_type = <<>>
    /\ idx = 0
    /\ total_price = 0
    /\ property_count = 0
    /\ log = <<>>
    /\ outcome = "none"
    /\ result = 0
    /\ reflat = NotCalled

Init ==
    /\ \/ /\ street_trees \in SmallTaxonomies
          /\ property_sales \in SalesSequences
       \/ /\ street_trees = ReferenceTrees
          /\ property_sales = ReferenceSales
    /\ Fresh
    /\ history = NoHistory
    /\ Idle

InitFlatten ==
    /\ \/ \E ps \in PlacementSequences : street_trees = BuildTaxonomy(ps, Len(ps))
       \/ street_trees \in {PyNone, ReferenceTrees}
    /\ property_sales = FlattenSales
    /\ Fresh
    /\ history = NoHistory
    /\ Idle

\* sales the sequences of calls are made on: the reference data, a rejected
\* record between counted ones, a record that ends the call after one that
\* was counted
CallSales ==
    { ReferenceSales,
      FlattenSales,
      <<>>,
      << Sale(PyStr(AStreet), PyStr(<<"7">>)),
         Sale(PyStr(AStreet), PyStr(<<"x">>)),
         Sale(PyStr(BRoad), PyStr(<<"0",".","0","2">>)) >>,
      << Sale(PyStr(BRoad), PyStr(<<"7">>)),
         Sale(PyNone, PyStr(<<"7">>)),
         Sale(PyStr(AStreet), PyStr(<<"7">>)) >> }

CallTaxonomies ==
    { ReferenceTrees,
      PyDict(<< <<Short, ShortSubtree>>, <<Tall, TallSubtree>> >>),
      PyDict(<< <<Medium, TallSubtree>>, <<Short, ShortSubtree>> >>),
      PyNone }

\* an aggregator whose calls are noted
InitCalls ==
    /\ street_trees \in CallTaxonomies
    /\ property_sales \in CallSales
    /\ Fresh
    /\ history = [on |-> TRUE, calls |-> <<>>]
    /\ Idle

\* the taxonomy emptied by the traversal
ConstructConsuming ==
    /\ pc = "new"
    /\ LET r == FlattenStreetTrees(street_trees)
       IN  IF r.exc = ""
           THEN flattened' = r.flat /\ pc' = "ready"
           ELSE flattened' = flattened /\ pc' = "ctor_raised"
    /\ street_trees' = IF IsDict(street_trees) THEN PyDict(<<>>) ELSE street_trees
    /\ UNCHANGED <<property_sales, tree_type, idx, total_price,
                   property_count, log, outcome, result, reflat>>
    /\ UNCHANGED <<history, outside>>

\* __init__, lines 135-138
Construct ==
    /\ pc = "new"
    /\ LET r == FlattenStreetTrees(street_trees)
       IN  IF r.exc = ""
           THEN flattened' = r.flat /\ pc' = "ready"
           ELSE flattened' = flattened /\ pc' = "ctor_raised"
    /\ UNCHANGED <<street_trees, property_sales, tree_type, idx, total_price,
                   property_count, log, outcome, result, reflat>>
    /\ UNCHANGED <<history, outside>>

\* _flatten_street_trees(street_trees) called on the constructed instance
FlattenAgain ==
    /\ pc = "ready"
    /\ LET r == FlattenStreetTrees(street_trees)
       IN  reflat' = [called |-> TRUE, exc |-> r.exc, flat |-> r.flat]
    /\ UNCHANGED <<street_trees, property_sales, flattened, pc, tree_type, idx,
                   total_price, property_count, log, outcome, result>>
    /\ UNCHANGED <<history, outside>>

\* the sum and the count kept from the call before
EnterNoReset(type) ==
    /\ pc = "ready"
    /\ pc' = "loop"
    /\ tree_type' = type
    /\ idx' = 1
    /\ log' = <<>>
    /\ outcome' = "none"
    /\ UNCHANGED <<street_trees, property_sales, flattened, total_price,
                   property_count, result, reflat>>
    /\ UNCHANGED <<history, outside>>

\* lines 220-221: entry of _calculate_average_price(type)
Enter(type) ==
    /\ pc = "ready"
    /\ pc' = "loop"
    /\ tree_type' = type
    /\ idx' = 1
    /\ total_price' = 0
    /\ property_count' = 0
    /\ log' = <<>>
    /\ outcome' = "none"
    /\ UNCHANGED <<street_trees, property_sales, flattened, result, reflat>>
    /\ UNCHANGED <<history, outside>>

CalculateAveragePriceTallTrees == Enter(Tall)

CalculateAveragePriceShortTrees == Enter(Short)

\* the aggregation primitive called with another label
CalculateAveragePriceOther == \E type \in {Medium, Blank} : Enter(type)

\* the record joined with the leaves of the taxonomy, once per leaf
ProcessNextPerLeaf ==
    /\ pc = "loop"
    /\ idx <= Len(property_sales)
    /\ LET r == ProcessRecord(property_sales[idx], tree_type, flattened)
           n == Cardinality({o \in TypeOccurrences(street_trees) :
                   /\ o[1] = tree_type
                   /\ IsHeight(o[3])
                   /\ r.kind = "counted"
                   /\ Last(o[2]) = Lower(Lookup(property_sales[idx], StreetNameKey).v)})
       IN  /\ total_price' = total_price + n * r.price
           /\ property_count' = property_count + n
           /\ log' = IF r.kind = "skipped"
                     THEN Append(log, [record |-> idx, exc |-> r.exc, reason |-> r.reason])
                     ELSE log
           /\ IF r.kind = "raised"
              THEN pc' = "ready" /\ outcome' = r.exc /\ idx' = idx
              ELSE pc' = pc /\ outcome' = outcome /\ idx' = idx + 1
    /\ UNCHANGED <<street_trees, property_sales, flattened, tree_type, result, reflat>>
    /\ history' = IF ProcessRecord(property_sales[idx], tree_type, flattened).kind = "raised"
                  THEN Noted(history, tree_type,
                             ProcessRecord(property_sales[idx], tree_type, flattened).exc, 0)
                  ELSE history
    /\ UNCHANGED outside

\* the type taken out of the street's entry once a record was counted for it
ProcessNextPopping ==
    /\ pc = "loop"
    /\ idx <= Len(property_sales)
    /\ LET r == ProcessRecord(property_sales[idx], tree_type, flattened)
           street == Lower(Lookup(property_sales[idx], StreetNameKey).v)
       IN  /\ total_price' = IF r.kind = "counted" THEN total_price + r.price
                             ELSE total_price
           /\ property_count' = IF r.kind = "counted" THEN property_count + 1
                                ELSE property_count
           /\ flattened' = IF r.kind = "counted"
                           THEN [flattened EXCEPT ![street] =
                                    [c \in (DOMAIN @) \ {tree_type} |-> TRUE]]
                           ELSE flattened
           /\ log' = IF r.kind = "skipped"
                     THEN Append(log, [record |-> idx, exc |-> r.exc, reason |-> r.reason])
                     ELSE log
           /\ IF r.kind = "raised"
              THEN pc' = "ready" /\ outcome' = r.exc /\ idx' = idx
              ELSE pc' = pc /\ outcome' = outcome /\ idx' = idx + 1
           /\ history' = IF r.kind = "raised" THEN Noted(history, tree_type, r.exc, 0)
                         ELSE history
    /\ UNCHANGED <<street_trees, property_sales, tree_type, result, reflat>>
    /\ UNCHANGED outside

\* one iteration of the loop, lines 223-254
ProcessNext ==
    /\ pc = "loop"
    /\ idx <= Len(property_sales)
    /\ LET r == ProcessRecord(property_sales[idx], tree_type, flattened)
       IN  /\ total_price' = IF r.kind = "counted" THEN total_price + r.price
                             ELSE total_price
           /\ property_count' = IF r.kind = "counted" THEN property_count + 1
                                ELSE property_count
           /\ log' = IF r.kind = "skipped"
                     THEN Append(log, [record |-> idx, exc |-> r.exc, reason |-> r.reason])
                     ELSE log
           /\ IF r.kind = "raised"
              THEN pc' = "ready" /\ outcome' = r.exc /\ idx' = idx
              ELSE pc' = pc /\ outcome' = outcome /\ idx' = idx + 1
    /\ UNCHANGED <<street_trees, property_sales, flattened, tree_type, result, reflat>>
    /\ history' = IF ProcessRecord(property_sales[idx], tree_type, flattened).kind = "raised"
                  THEN Noted(history, tree_type,
                             ProcessRecord(property_sales[idx], tree_type, flattened).exc, 0)
                  ELSE history
    /\ UNCHANGED outside

\* a result other than 0.0 kept from the call before and returned again
ReturnCached ==
    /\ pc = "loop"
    /\ idx > Len(property_sales)
    /\ result' = IF result # 0 THEN result ELSE AveragePrice(total_price, property_count)
    /\ outcome' = "returned"
    /\ pc' = "ready"
    /\ UNCHANGED <<street_trees, property_sales, flattened, tree_type, idx,
                   total_price, property_count, log, reflat>>
    /\ history' = Noted(history, tree_type, "", result')
    /\ UNCHANGED outside

\* lines 256-257
Return ==
    /\ pc = "loop"
    /\ idx > Len(property_sales)
    /\ result' = AveragePrice(total_price, property_count)
    /\ outcome' = "returned"
    /\ pc' = "ready"
    /\ UNCHANGED <<street_trees, property_sales, flattened, tree_type, idx,
                   total_price, property_count, log, reflat>>
    /\ history' = Noted(history, tree_type, "", result')
    /\ UNCHANGED outside

Next ==
    \/ Construct
    \/ CalculateAveragePriceTallTrees
    \/ CalculateAveragePriceShortTrees
    \/ CalculateAveragePriceOther
    \/ ProcessNext
    \/ Return

Spec == Init /\ [][Next]_vars

NextFlatten ==
    \/ Construct
    \/ FlattenAgain

SpecFlatten == InitFlatten /\ [][NextFlatten]_vars

SpecCalls == InitCalls /\ [][Next]_vars

----------------------------------------------------------------------------
(* Config (utils/config.py), TOMLParser (file_parsers.py) and Logger       *)
(* (utils/logger.py). An outcome is [called, exc, value]: exc the          *)
(* exception that left the call ("" for none).                             *)

Logging == <<"l","o","g","g","i","n","g">>
Level   == <<"l","e","v","e","l">>

Ok(value)  == [called |-> TRUE, exc |-> "", value |-> value]
Raise(exc) == [called |-> TRUE, exc |-> exc, value |-> PyNone]

RECURSIVE RStripDots(_)
\* name.rstrip(".")
RStripDots(name) ==
    IF name # <<>> /\ name[Len(name)] = "."
    THEN RStripDots(SubSeq(name, 1, Len(name) - 1))
    ELSE name

RECURSIVE Split(_)
\* text.split("."): the texts between the periods, at least one
Split(text) ==
    LET dots == {i \in DOMAIN text : text[i] = "."}
    IN  IF dots = {} THEN <<text>>
        ELSE LET d == CHOOSE i \in dots : \A j \in dots : i <= j
             IN  <<SubSeq(text, 1, d - 1)>> \o Split(SubSeq(text, d + 1, Len(text)))

\* Config._name_to_list, lines 50-59
NameToList(name) ==
    IF name = <<>> THEN Raise("ValueError")
    ELSE LET words == Split(RStripDots(name))
         IN  IF words = <<>> THEN Raise("ValueError") ELSE Ok(words)

\* TOMLParser.extract, lines 217-238. An exception inside the try (the
\* decoder's, or the ValueError of line 225) has the except clause of line
\* 227 evaluated, which names an attribute tomllib does not have.
LoadConfig(file) ==
    IF ~file.exists THEN Raise("FileNotFoundError")
    ELSE IF ~file.valid THEN Raise("AttributeError")
    ELSE IF ~Truthy(file.data) THEN Raise("AttributeError")
    ELSE Ok(file.data)

\* config[word], line 100
GetItem(config, word) ==
    IF IsDict(config)
    THEN IF HasKey(config, word) THEN Ok(Lookup(config, word)) ELSE Raise("KeyError")
    ELSE Raise("TypeError")

RECURSIVE Descend(_, _, _)
\* the loop of lines 99-100 from the i-th word on
Descend(config, words, i) ==
    IF i > Len(words) THEN Ok(config)
    ELSE LET item == GetItem(config, words[i])
         IN  IF item.exc # "" THEN item ELSE Descend(item.value, words, i + 1)

\* Config.get_value, lines 95-109
GetValue(file, name) ==
    LET words == NameToList(name)
    IN  IF words.exc # "" THEN words
        ELSE LET config == LoadConfig(file)
             IN  IF config.exc # "" THEN config
                 ELSE LET found == Descend(config.value, words.value, 1)
                      IN  IF found.exc # "" THEN found
                          ELSE IF ~IsDict(found.value) THEN found
                          ELSE Raise("ValueError")

\* the level names of the logging module
LevelNames ==
    { <<"C","R","I","T","I","C","A","L">>, <<"F","A","T","A","L">>,
      <<"E","R","R","O","R">>, <<"W","A","R","N">>, <<"W","A","R","N","I","N","G">>,
      <<"I","N","F","O">>, <<"D","E","B","U","G">>, <<"N","O","T","S","E","T">> }

\* logger.setLevel(level), line 75: the exception it raises ("" for none)
SetLevel(level) ==
    IF IsInstanceInt(level) THEN ""
    ELSE IF level.t = "str" THEN (IF level.v \in LevelNames THEN "" ELSE "ValueError")
    ELSE "TypeError"

NoLogger == [called |-> FALSE, exc |-> "", level |-> PyNone, config_exc |-> ""]

\* Logger.get_logger, lines 65-76: dictConfig opens logs/app.log; config_exc
\* is how the Config.get_value call of line 69 ended
GetLogger(fs) ==
    IF ~fs.logs_dir
    THEN [called |-> TRUE, exc |-> "ValueError", level |-> PyNone, config_exc |-> ""]
    ELSE LET got == GetValue(fs.toml, Logging \o <<".">> \o Level)
             log_level == IF got.exc = "KeyError" THEN PyStr(<<"I","N","F","O">>)
                          ELSE got.value
         IN  IF got.exc \notin {"", "KeyError"}
             THEN [called |-> TRUE, exc |-> got.exc, level |-> PyNone, config_exc |-> got.exc]
             ELSE [called |-> TRUE, exc |-> SetLevel(log_level),
                   level |-> IF SetLevel(log_level) = "" THEN log_level ELSE PyNone,
                   config_exc |-> got.exc]

MaxWords == 3

Words == {Logging, Level, X, <<>>}

RECURSIVE Join(_)
\* ".".join(words)
Join(words) ==
    IF words = <<>> THEN <<>>
    ELSE IF Len(words) = 1 THEN words[1]
    ELSE words[1] \o <<".">> \o Join(Tail(words))

KeyNames == {Join(ws) : ws \in UNION {[1..n -> Words] : n \in 0..MaxWords}}

Toml(data) == [exists |-> TRUE, valid |-> TRUE, data |-> data]

LoggingTable(level) == PyDict(<< <<Logging, PyDict(<< <<Level, level>> >>)>> >>)

\* config.toml: absent, undecodable, empty, and tables
ConfigFiles ==
    { Missing,
      [exists |-> TRUE, valid |-> FALSE, data |-> PyNone],
      Toml(PyDict(<<>>)),
      Toml(LoggingTable(PyStr(<<"D","E","B","U","G">>))),
      Toml(LoggingTable(PyStr(<<"i","n","f","o">>))),
      Toml(LoggingTable(PyInt(10))),
      Toml(LoggingTable(PyFloat(1500))),
      Toml(LoggingTable(PyList(<<PyStr(<<"I","N","F","O">>)>>))),
      Toml(LoggingTable(PyDict(<< <<X, PyInt(1)>> >>))),
      Toml(PyDict(<< <<Logging, PyDict(<< <<X, PyInt(1)>> >>)>> >>)),
      Toml(PyDict(<< <<Logging, PyInt(5)>> >>)),
      Toml(PyDict(<< <<<<>>, PyInt(3)>>,
                     <<Logging, PyDict(<< <<Level, PyStr(<<"I","N","F","O">>)>> >>)>> >>)) }

InitConfig ==
    /\ street_trees = PyNone
    /\ property_sales = <<>>
    /\ Fresh
    /\ history = NoHistory
    /\ app = NotRun
    /\ \E toml \in ConfigFiles, dir \in BOOLEAN :
          files = [NoFiles EXCEPT !.toml = toml, !.logs_dir = dir]
    /\ key_name \in KeyNames
    /\ got_value = NoCall
    /\ got_logger = NoLogger

\* Config.get_value(key_name)
ConfigGetValue ==
    /\ ~got_value.called
    /\ got_value' = GetValue(files.toml, key_name)
    /\ UNCHANGED <<aggregator, files, app, key_name, got_logger>>

\* Logger.get_logger()
LoggerGetLogger ==
    /\ ~got_logger.called
    /\ got_logger' = GetLogger(files)
    /\ UNCHANGED <<aggregator, files, app, key_name, got_value>>

NextConfig ==
    \/ ConfigGetValue
    \/ LoggerGetLogger

SpecConfig == InitConfig /\ [][NextConfig]_vars

----------------------------------------------------------------------------
(* CSVParser, JSONParser (file_parsers.py) and Application (main.py)       *)

\* CSVParser.extract, lines 91-107: the rows csv.DictReader yields
CSVExtract(file) ==
    IF ~file.exists THEN Raise("FileNotFoundError")
    ELSE IF ~file.valid THEN Raise("csv.Error")
    ELSE Ok(file.data)

\* JSONParser.extract, lines 152-173: the decoder's error is a ValueError
JSONExtract(file) ==
    IF ~file.exists THEN Raise("FileNotFoundError")
    ELSE IF ~file.valid THEN Raise("ValueError")
    ELSE IF ~Truthy(file.data) THEN Raise("ValueError")
    ELSE Ok(file.data)

\* `except FileNotFoundError or ValueError`, lines 59 and 68: the expression
\* `FileNotFoundError or ValueError` is FileNotFoundError
CaughtByRun(exc) == exc = "FileNotFoundError"

\* Application.__init__, lines 44-48
ApplicationInit ==
    /\ app.pc = "idle"
    /\ LET logger == GetLogger(files)
       IN  app' = IF logger.exc = "" THEN [app EXCEPT !.pc = "start"]
                  ELSE [app EXCEPT !.pc = "raised", !.exc = logger.exc, !.exit_code = 1]
    /\ UNCHANGED <<aggregator, files, key_name, got_value, got_logger>>

\* Application.run, lines 56-63
ExtractPropertySales ==
    /\ app.pc = "start"
    /\ LET r == CSVExtract(files.csv)
           opened == [app EXCEPT !.read = Append(@, "csv"), !.csv_exc = r.exc]
       IN  app' = IF r.exc = ""
                  THEN [opened EXCEPT !.pc = "sales_extracted", !.property_sales = r.value]
                  ELSE IF CaughtByRun(r.exc)
                  THEN [opened EXCEPT !.pc = "exited", !.exit_code = 100,
                                      !.critical = Append(@, "property sales")]
                  ELSE [opened EXCEPT !.pc = "raised", !.exc = r.exc, !.exit_code = 1]
    /\ UNCHANGED <<aggregator, files, key_name, got_value, got_logger>>

\* Application.run, lines 65-72
ExtractStreetTrees ==
    /\ app.pc = "sales_extracted"
    /\ LET r == JSONExtract(files.json)
           opened == [app EXCEPT !.read = Append(@, "json"), !.json_exc = r.exc]
       IN  app' = IF r.exc = ""
                  THEN [opened EXCEPT !.pc = "trees_extracted", !.street_trees = r.value]
                  ELSE IF CaughtByRun(r.exc)
                  THEN [opened EXCEPT !.pc = "exited", !.exit_code = 101,
                                      !.critical = Append(@, "street trees")]
                  ELSE [opened EXCEPT !.pc = "raised", !.exc = r.exc, !.exit_code = 1]
    /\ UNCHANGED <<aggregator, files, key_name, got_value, got_logger>>

\* Application.run, lines 74-94: the statistics object, then the two
\* averages, each logged once it was returned
ComputeAverages ==
    /\ app.pc = "trees_extracted"
    /\ LET index  == FlattenStreetTrees(app.street_trees)
           logger == GetLogger(files)
           built  == [app EXCEPT !.constructed = TRUE]
           tall   == CalculateAveragePrice(app.property_sales.v, Tall, index.flat)
           short  == CalculateAveragePrice(app.property_sales.v, Short, index.flat)
       IN  app' =
             IF index.exc # ""
             THEN [app EXCEPT !.pc = "raised", !.exc = index.exc, !.exit_code = 1]
             ELSE IF logger.exc # ""
             THEN [app EXCEPT !.pc = "raised", !.exc = logger.exc, !.exit_code = 1]
             ELSE IF tall.exc # ""
             THEN [built EXCEPT !.pc = "raised", !.exc = tall.exc, !.exit_code = 1]
             ELSE IF short.exc # ""
             THEN [built EXCEPT !.pc = "raised", !.exc = short.exc, !.exit_code = 1,
                                !.info = <<tall.value>>]
             ELSE [built EXCEPT !.pc = "done", !.info = <<tall.value, short.value>>]
    /\ UNCHANGED <<aggregator, files, key_name, got_value, got_logger>>

Rows(sales) == [exists |-> TRUE, valid |-> TRUE, data |-> PyList(sales)]

\* dublin-property.csv: absent, not readable as CSV, no rows, rows
CsvFiles ==
    { Missing,
      [exists |-> TRUE, valid |-> FALSE, data |-> PyNone],
      Rows(<<>>),
      Rows(ReferenceSales),
      Rows(FlattenSales),
      Rows(<< Sale(PyStr(AStreet), PyNone), Sale(PyStr(BRoad), PyStr(<<"7">>)) >>),
      Rows(<< Sale(PyStr(AStreet), PyStr(<<"7">>)), Sale(PyNone, PyNone) >>) }

\* dublin-trees.json: absent, not JSON, empty data sets, data that is not a
\* mapping of mappings, taxonomies
JsonFiles ==
    { Missing,
      [exists |-> TRUE, valid |-> FALSE, data |-> PyNone],
      Toml(PyDict(<<>>)),
      Toml(PyList(<<>>)),
      Toml(PyNone),
      Toml(PyList(<<PyInt(1)>>)),
      Toml(PyDict(<< <<Tall, PyInt(5)>> >>)),
      Toml(ReferenceTrees),
      Toml(PyDict(<< <<Short, ShortSubtree>>, <<Tall, TallSubtree>> >>)) }

InitApp ==
    /\ street_trees = PyNone
    /\ property_sales = <<>>
    /\ Fresh
    /\ history = NoHistory
    /\ app = NotRun
    /\ \E csv \in CsvFiles, json \in JsonFiles,
          toml \in {Toml(LoggingTable(PyStr(<<"D","E","B","U","G">>))),
                    Toml(LoggingTable(PyDict(<< <<X, PyInt(1)>> >>)))} :
          files = [csv |-> csv, json |-> json, toml |-> toml, logs_dir |-> TRUE]
    /\ key_name = <<>>
    /\ got_value = NoCall
    /\ got_logger = NoLogger

NextApp ==
    \/ ApplicationInit
    \/ ExtractPropertySales
    \/ ExtractStreetTrees
    \/ ComputeAverages

SpecApp == InitApp /\ [][NextApp]_vars

----------------------------------------------------------------------------
(* Vocabulary of the properties *)

Returned == pc = "ready" /\ outcome = "returned"

Types == {Tall, Short, Medium, Blank}

RECURSIVE SumOver(_, _)
\* the sum of f[i] over the i in I
SumOver(I, f) ==
    IF I = {} THEN 0
    ELSE LET i == CHOOSE j \in I : TRUE
         IN  f[i] + SumOver(I \ {i}, f)

\* removing the i-th record of a sequence
Without(sales, i) == SubSeq(sales, 1, i - 1) \o SubSeq(sales, i + 1, Len(sales))

\* the record is a mapping with both fields whose street name is a text
HasBothFields(rec) ==
    /\ IsDict(rec)
    /\ HasKey(rec, StreetNameKey)
    /\ HasKey(rec, PriceKey)
    /\ Lookup(rec, StreetNameKey).t = "str"

StreetOf(rec) == Lower(Lookup(rec, StreetNameKey).v)

PriceOf(rec) == ParseFloat(RemoveCommas(StrOf(Lookup(rec, PriceKey))))

\* the record is one that is counted for type c against the index
CountedFor(rec, c, index) ==
    /\ HasBothFields(rec)
    /\ StreetOf(rec) # <<>>
    /\ PriceOf(rec).ok
    /\ StreetOf(rec) \in DOMAIN index
    /\ c \in DOMAIN index[StreetOf(rec)]

CountedRecords(sales, c, index) ==
    {i \in DOMAIN sales : CountedFor(sales[i], c, index)}

PriceSum(sales, I) == SumOver(I, [i \in I |-> PriceOf(sales[i]).v])

----------------------------------------------------------------------------
(* C1: whenever _calculate_average_price(c) returns and N > 0 records are  *)
(* counted for c (both fields, non-empty lower-cased street name, price    *)
(* parsing as a number once the commas are removed, lower-cased street in  *)
(* the index with c in its set), it returns round(S / N, 2), S the sum of  *)
(* those records' prices; with the reference data it returns 135000.0 for  *)
(* "tall" and 114750.0 for "short". (N = 0 has no quotient: see C4.)       *)
C1_AverageIsRoundedMean ==
    Returned =>
        LET I == CountedRecords(property_sales, tree_type, flattened)
        IN  /\ I # {} => result = Round2(PriceSum(property_sales, I), Cardinality(I))
            /\ (street_trees = ReferenceTrees /\ property_sales = ReferenceSales) =>
                  /\ tree_type = Tall => result = 13500000
                  /\ tree_type = Short => result = 11475000

C1_Witness ==
    /\ Returned
    /\ street_trees = ReferenceTrees
    /\ property_sales = ReferenceSales
    /\ tree_type = Tall
    /\ property_count = 2
    /\ result = 13500000

\* a record the claim C2 calls rejected: a field missing, a non-numeric
\* price, a blank (empty or whitespace-only) street name, or a street name
\* absent from the index
IsBlank(text) == \A i \in DOMAIN text : text[i] = " "

RejectedByClaim(rec, index) ==
    /\ IsDict(rec)
    /\ \/ ~HasKey(rec, StreetNameKey)
       \/ ~HasKey(rec, PriceKey)
       \/ ~PriceOf(rec).ok
       \/ /\ Lookup(rec, StreetNameKey).t = "str"
          /\ \/ IsBlank(Lookup(rec, StreetNameKey).v)
             \/ StreetOf(rec) \notin DOMAIN index

(* C2: in every call that returns, a record that misses a field, has a     *)
(* non-numeric price, a blank (empty or whitespace-only) street name or a  *)
(* street name absent from the index changes neither sum nor count: the    *)
(* result is the result over the sequence without that record.             *)
C2_RejectedRecordIsNeutral ==
    Returned =>
        \A i \in DOMAIN property_sales :
            RejectedByClaim(property_sales[i], flattened) =>
                CalculateAveragePrice(Without(property_sales, i), tree_type, flattened)
                    = [exc |-> "", value |-> result]

(* C3: no exception leaves _calculate_average_price, whatever the records  *)
(* contain: every call that was entered is still running or has returned   *)
(* a number.                                                               *)
C3_NoExceptionLeavesTheCall ==
    outcome \in {"none", "returned"}

(* C4: _calculate_average_price(c) returns exactly 0.0 whenever no record  *)
(* is counted for c: no sales, a label nowhere in the index, every record  *)
(* rejected or on a street without c.                                      *)
C4_ZeroWhenNothingCounted ==
    (Returned /\ CountedRecords(property_sales, tree_type, flattened) = {})
        => result = 0 /\ property_count = 0

C4_Witness ==
    /\ Returned
    /\ tree_type = Short
    /\ Len(property_sales) = MaxSales
    /\ CountedRecords(property_sales, Short, flattened) = {}
    /\ CountedRecords(property_sales, Tall, flattened) # {}
    /\ Len(log) >= 1
    /\ result = 0

----------------------------------------------------------------------------
(* Properties of the flattening *)

\* the (street, type) associations an index holds
IndexPairs(index) == UNION {{<<street, c>> : c \in DOMAIN index[street]} : street \in DOMAIN index}

(* C5: the index of _flatten_street_trees associates street s with type c  *)
(* if and only if, at some depth under top-level key c, a non-mapping      *)
(* entry keyed s has an integer value >= 0; intermediate keys and leaves   *)
(* that are negative, non-integer, boolean, string, list or null produce   *)
(* no entry and no flag.                                                   *)
C5_IndexIsExactlyTheHeightLeaves ==
    pc = "ready" =>
        IndexPairs(flattened) =
            {<<l[2], l[1]>> : l \in {m \in TypeLeaves(street_trees) :
                                        IsNonNegativeInteger(m[3])}}

(* C6: _flatten_street_trees never raises for a taxonomy mapping: neither  *)
(* construction nor a later call is left by an exception, also when a      *)
(* top-level type maps to a non-mapping value.                             *)
C6_FlattenNeverRaises ==
    pc # "ctor_raised" /\ reflat.exc = ""

\* the types under which the street has a leaf that is an integer >= 0
TypesOfStreet(trees, street) ==
    {l[1] : l \in {m \in TypeLeaves(trees) : m[2] = street /\ IsNonNegativeInteger(m[3])}}

MultiStreets(trees) ==
    {street \in {l[2] : l \in TypeLeaves(trees)} :
        Cardinality(TypesOfStreet(trees, street)) >= 2}

\* a record with both fields, a non-empty street name and a numeric price
ValidSale(rec) == HasBothFields(rec) /\ StreetOf(rec) # <<>> /\ PriceOf(rec).ok

(* C7: a street with a valid leaf under two or more top-level types has    *)
(* every one of them in its index entry, whatever the order of the types,  *)
(* and each valid sale record on such a street is counted in the sum and   *)
(* count of each of those types.                                           *)
C7_MultiCategoryStreet ==
    pc \in {"ready", "loop"} =>
        LET multi == MultiStreets(street_trees)
            done  == {i \in 1..(idx - 1) :
                        /\ ValidSale(property_sales[i])
                        /\ StreetOf(property_sales[i]) \in multi
                        /\ tree_type \in TypesOfStreet(street_trees, StreetOf(property_sales[i]))}
        IN  /\ \A street \in multi :
                  /\ street \in DOMAIN flattened
                  /\ TypesOfStreet(street_trees, street) \subseteq DOMAIN flattened[street]
            /\ (pc = "loop" \/ Returned) =>
                  /\ property_count >= Cardinality(done)
                  /\ done = 1..(idx - 1) =>
                        /\ property_count = Cardinality(done)
                        /\ total_price = PriceSum(property_sales, done)

C7_Witness ==
    /\ Returned
    /\ IsDict(street_trees)
    /\ Len(street_trees.v) = 2
    /\ street_trees.v[1][1] = Tall
    /\ tree_type = Short
    /\ AStreet \in MultiStreets(street_trees)
    /\ Len(property_sales) = MaxSales
    /\ property_count = MaxSales
    /\ total_price > 0

----------------------------------------------------------------------------
(* Taxonomies with the leaves of another one *)

W == <<"w">>

\* one more intermediate level below every type
Wrap(trees) ==
    PyDict([i \in DOMAIN trees.v |->
              <<trees.v[i][1],
                IF IsDict(trees.v[i][2]) THEN PyDict(<< <<W, trees.v[i][2]>> >>)
                ELSE trees.v[i][2]>>])

RECURSIVE DictOf(_)
\* the leaves placed directly in one mapping
DictOf(occurrences) ==
    IF occurrences = {} THEN PyDict(<<>>)
    ELSE LET o == CHOOSE x \in occurrences : TRUE
         IN  SetItem(DictOf(occurrences \ {o}), Last(o[1]), o[2])

\* no intermediate level: every leaf sits directly under its type
Hoist(trees) ==
    PyDict([i \in DOMAIN trees.v |->
              <<trees.v[i][1],
                IF IsDict(trees.v[i][2]) THEN DictOf(Occurrences(trees.v[i][2]))
                ELSE trees.v[i][2]>>])

RECURSIVE Mirror(_)
\* the entries of every mapping in the opposite order
Mirror(node) ==
    IF ~IsDict(node) THEN node
    ELSE PyDict([i \in DOMAIN node.v |->
                   <<node.v[Len(node.v) + 1 - i][1], Mirror(node.v[Len(node.v) + 1 - i][2])>>])

Reshapings(trees) == {Wrap(trees), Hoist(trees), Mirror(trees)}

(* C8: two taxonomies with the same set of (type, street, height) leaves   *)
(* and different intermediate levels (more levels, none at all, another    *)
(* order) flatten to equal indexes, and every average over the same sales  *)
(* is equal.                                                               *)
C8_DepthIndependence ==
    (pc = "ready" /\ IsDict(street_trees)) =>
        LET leaves == TypeLeaves(street_trees)
            mine   == [c \in Types |-> CalculateAveragePrice(property_sales, c, flattened)]
        IN  \A other \in Reshapings(street_trees) :
                TypeLeaves(other) = leaves =>
                    LET index == FlattenStreetTrees(other)
                    IN  /\ index = [exc |-> "", flat |-> flattened]
                        /\ \A c \in Types :
                              CalculateAveragePrice(property_sales, c, index.flat) = mine[c]

C8_Witness ==
    /\ pc = "ready"
    /\ IsDict(street_trees)
    /\ Cardinality(IndexPairs(flattened)) >= 2
    /\ Hoist(street_trees) # street_trees
    /\ TypeLeaves(Hoist(street_trees)) = TypeLeaves(street_trees)
    /\ CalculateAveragePrice(property_sales, Tall, flattened).value > 0

DupStreets(trees, c) ==
    {Last(o[2]) : o \in {x \in TypeOccurrences(trees) :
        /\ x[1] = c
        /\ IsNonNegativeInteger(x[3])
        /\ \E y \in TypeOccurrences(trees) :
              /\ y[1] = c
              /\ y[2] # x[2]
              /\ Last(y[2]) = Last(x[2])
              /\ IsNonNegativeInteger(y[3])}}

(* C10: when a street is a valid leaf at two paths under one type, its     *)
(* index entry holds the type, and each valid sale record on the street    *)
(* adds its price once to the sum and 1 to the count of that type.         *)
C10_DuplicateLeafCountedOnce ==
    [][ ( /\ pc = "loop"
          /\ idx <= Len(property_sales)
          /\ ValidSale(property_sales[idx])
          /\ StreetOf(property_sales[idx]) \in DupStreets(street_trees, tree_type) )
        => ( /\ tree_type \in DOMAIN flattened[StreetOf(property_sales[idx])]
             /\ property_count' = property_count + 1
             /\ total_price' = total_price + PriceOf(property_sales[idx]).v ) ]_vars

C10_Witness ==
    /\ Returned
    /\ tree_type = Short
    /\ AStreet \in DupStreets(street_trees, Short)
    /\ Len(property_sales) = MaxSales
    /\ property_count = MaxSales

----------------------------------------------------------------------------
\* the records that are valid sales on a street that, up to letter case, is
\* the key of an integer >= 0 leaf under type c
JoinedUpToCase(sales, trees, c) ==
    {i \in DOMAIN sales :
        /\ ValidSale(sales[i])
        /\ \E l \in TypeLeaves(trees) :
              /\ l[1] = c
              /\ IsNonNegativeInteger(l[3])
              /\ Lower(l[2]) = StreetOf(sales[i])}

(* C11: every key of the index is the lower-case form of a leaf's key: a   *)
(* valid leaf keyed k under type c puts c in the entry of lower(k), and a  *)
(* valid sale whose street name equals a leaf key up to letter case is     *)
(* counted for the leaf's type.                                            *)
C11_IndexKeyedByLowerCase ==
    /\ pc \in {"ready", "loop"} =>
          /\ \A street \in DOMAIN flattened : street = Lower(street)
          /\ \A l \in TypeLeaves(street_trees) :
                IsNonNegativeInteger(l[3]) =>
                    /\ Lower(l[2]) \in DOMAIN flattened
                    /\ l[1] \in DOMAIN flattened[Lower(l[2])]
    /\ Returned =>
          JoinedUpToCase(property_sales, street_trees, tree_type)
              \subseteq CountedRecords(property_sales, tree_type, flattened)

----------------------------------------------------------------------------
(* C13: every value _calculate_average_price returns is non-negative,      *)
(* also when price texts parse to negative numbers.                        *)
C13_AverageNonNegative ==
    Returned => result >= 0

\* total / count rounded to hundredths, a halfway mean going away from zero
RoundHalfUp(total, count) ==
    LET unit == 10 * count
        mag  == IF total >= 0 THEN total ELSE 0 - total
        q    == mag \div unit
        r    == mag % unit
        up   == IF 2 * r >= unit THEN q + 1 ELSE q
    IN  IF total >= 0 THEN up ELSE 0 - up

(* C14: the returned average is the exact mean sum / count rounded to two  *)
(* fraction digits half-up: a mean whose third fraction digit is a final 5 *)
(* (prices 0.01 and 0.02, mean 0.015) goes to the next hundredth.          *)
C14_RoundsHalfUp ==
    (Returned /\ property_count > 0) =>
        result = RoundHalfUp(total_price, property_count)

\* a record that is not a sale with both fields, a non-blank street name
\* found in the index and a numeric price
RejectedRecord(rec, index) ==
    ~ ( /\ HasBothFields(rec)
        /\ ~IsBlank(Lookup(rec, StreetNameKey).v)
        /\ PriceOf(rec).ok
        /\ StreetOf(rec) \in DOMAIN index )

(* C15: within a call the records are handled in sequence order; each      *)
(* rejected record handled so far has exactly one diagnostic, in order, a  *)
(* record that is not rejected has none, and a call that is over has       *)
(* handled every record of the sequence.                                   *)
C15_OneDiagnosticPerRejectedRecord ==
    (pc = "loop" \/ (pc = "ready" /\ outcome # "none")) =>
        LET rejected == {i \in 1..(idx - 1) :
                            RejectedRecord(property_sales[i], flattened)}
        IN  /\ {log[k].record : k \in DOMAIN log} = rejected
            /\ \A j, k \in DOMAIN log : j < k => log[j].record < log[k].record
            /\ pc = "ready" => idx = Len(property_sales) + 1

(* C16: a record with both fields whose street name is empty is rejected   *)
(* at the street-name step, before its price is parsed: its diagnostic     *)
(* carries the empty-street-name reason also when its price is unparsable. *)
C16_EmptyStreetRejectedFirst ==
    \A k \in DOMAIN log :
        LET rec == property_sales[log[k].record]
        IN  (HasBothFields(rec) /\ StreetOf(rec) = <<>>)
                => log[k].reason = "invalid street name"

----------------------------------------------------------------------------
(* Sequences of calls on one aggregator *)

(* C12: construction flattens the taxonomy once, and no later step of any  *)
(* sequence of aggregate calls changes the index or the sales sequence     *)
(* (its records, their order, its length).                                 *)
C12_CallsLeaveIndexAndSales ==
    [][ /\ property_sales' = property_sales
        /\ pc # "new" => (flattened' = flattened /\ pc' # "new") ]_vars

C12_Witness ==
    /\ Len(history.calls) >= 2
    /\ history.calls[1].type # history.calls[2].type
    /\ flattened = FlattenStreetTrees(street_trees).flat
    /\ Cardinality(DOMAIN flattened) >= 2
    /\ Len(property_sales) >= 3
    /\ Len(log) >= 1

(* C20: on one aggregator, whatever calls were made before, in whatever    *)
(* order and however often, a call of _calculate_average_price(c) ends as  *)
(* it does on a freshly constructed aggregator given the same sales and    *)
(* taxonomy, so that all calls for one category return the same value.     *)
C20_CallIndependence ==
    LET calls == history.calls
        fresh == FlattenStreetTrees(street_trees).flat
    IN  /\ \A k \in DOMAIN calls :
              CalculateAveragePrice(property_sales, calls[k].type, fresh)
                  = [exc |-> calls[k].exc, value |-> calls[k].value]
        /\ \A j, k \in DOMAIN calls :
              calls[j].type = calls[k].type => calls[j] = calls[k]

C20_Witness ==
    \E j, k \in DOMAIN history.calls :
        /\ j < k
        /\ history.calls[j].type = Tall
        /\ history.calls[k].type = Short
        /\ history.calls[j].exc = ""
        /\ history.calls[k].exc = ""
        /\ history.calls[j].value > history.calls[k].value
        /\ history.calls[k].value > 0

----------------------------------------------------------------------------
(* Configuration and logger *)

(* C18: when the Config.get_value("logging.level") call of get_logger      *)
(* raises KeyError or ValueError, get_logger is left by no exception and   *)
(* returns a logger at the default level "INFO".                           *)
C18_GetLoggerFallsBack ==
    (got_logger.called /\ got_logger.config_exc \in {"KeyError", "ValueError"}) =>
        /\ got_logger.exc = ""
        /\ got_logger.level = PyStr(<<"I","N","F","O">>)

\* the file was read into a configuration
Loaded(file) == file.exists /\ file.valid /\ Truthy(file.data)

\* the key name holds nothing but periods
NoWords(name) == \A i \in DOMAIN name : name[i] = "."

RECURSIVE ClaimedWalk(_, _, _)
\* KeyError where the path leaves the tables or continues below a value that
\* is not a table, ValueError where it ends on a table, else the value
ClaimedWalk(node, path, i) ==
    IF i > Len(path)
    THEN (IF IsDict(node) THEN Raise("ValueError") ELSE Ok(node))
    ELSE IF IsDict(node) /\ HasKey(node, path[i])
         THEN ClaimedWalk(Lookup(node, path[i]), path, i + 1)
         ELSE Raise("KeyError")

ClaimedValue(config, name) ==
    IF NoWords(name) THEN Raise("ValueError")
    ELSE ClaimedWalk(config, Split(RStripDots(name)), 1)

(* C19: for every key name and loaded configuration get_value ends in one  *)
(* of: ValueError for a key name that is empty or has no words once the    *)
(* periods are removed, ValueError for a path ending on a table, KeyError  *)
(* for a path at which nothing exists (also one continuing below a         *)
(* scalar), else the non-table value at the path.                          *)
C19_GetValueOutcomes ==
    (got_value.called /\ Loaded(files.toml)) =>
        got_value = ClaimedValue(files.toml.data, key_name)

----------------------------------------------------------------------------
(* C17: in Application.run, when extracting the property sales fails with  *)
(* FileNotFoundError or ValueError a critical message is logged and the    *)
(* process exits with code 100 before the street-tree file is read; when   *)
(* extracting the street trees fails with FileNotFoundError or ValueError  *)
(* (an empty data set, say) a critical message is logged and the process   *)
(* exits with code 101; in both cases no PropertyValueStatistics is        *)
(* constructed and no average is computed or logged.                       *)
C17_ExtractionFailureExits ==
    LET failed(exc) == exc \in {"FileNotFoundError", "ValueError"}
        stopped(code) ==
            /\ app.pc = "exited"
            /\ app.exit_code = code
            /\ Len(app.critical) = 1
            /\ ~app.constructed
            /\ app.info = <<>>
    IN  /\ failed(app.csv_exc) => (stopped(100) /\ app.read = <<"csv">>)
        /\ failed(app.json_exc) => stopped(101)

====
